---- MODULE Spec2Model ----
(***************************************************************************)
(* Model of the error classification and diagnostic layer of src/error.rs: *)
(* the poisoned-lock normaliser (ToAnyhow), the dispositions (FatalError)  *)
(* and the logging transforms (LoggableError) on anyhow::Result<T>.        *)
(*                                                                         *)
(* Text is a sequence of tokens: a token is a word, or a run of blanks or  *)
(* punctuation, or the newline NL.  Two texts are equal as strings exactly *)
(* when they are equal as token sequences.                                 *)
(***************************************************************************)
EXTENDS Integers, Sequences, FiniteSets, TLC

VARIABLES pc, lockres, self, input, out, hist, rustBacktrace

vars == <<pc, lockres, self, input, out, hist, rustBacktrace>>

(* ------------------------------ bounds -------------------------------- *)
MaxVal == 1
MaxChain == 2
MaxCalls == 2
MaxLine == 2

(* ------------------------------- text --------------------------------- *)
NL == "\n"

NoValue == [tag |-> "NoValue"]

Unit == [tag |-> "Unit"]

Messages == { <<"disk", " ", "full">>, <<"Test", " ", "error">> }

StartsWith(s, t) == Len(t) <= Len(s) /\ SubSeq(s, 1, Len(t)) = t

EndsWith(s, t) == Len(t) <= Len(s) /\ SubSeq(s, Len(s) - Len(t) + 1, Len(s)) = t

Contains(s, t) == \E i \in 0..(Len(s) - Len(t)) : SubSeq(s, i + 1, i + Len(t)) = t

RECURSIVE SplitLines(_, _)
SplitLines(s, cur) ==
    IF s = <<>> THEN <<cur>>
    ELSE IF Head(s) = NL THEN <<cur>> \o SplitLines(Tail(s), <<>>)
    ELSE SplitLines(Tail(s), Append(cur, Head(s)))

Lines(s) == SplitLines(s, <<>>)

(* --------------------------- result values ---------------------------- *)
Ok(v) == [tag |-> "Ok", val |-> v]

Err(e) == [tag |-> "Err", err |-> e]

IsOk(r) == r.tag = "Ok"

IsErr(r) == r.tag = "Err"

(* anyhow::Error: the chain of messages, outermost (most recent) first,    *)
(* and whether a backtrace was captured when the error was created.        *)
AnyhowError(chain, bt) == [chain |-> chain, backtrace |-> bt]

Values == 0..MaxVal

RECURSIVE ChainsOfLen(_)
ChainsOfLen(n) ==
    IF n = 0 THEN { <<>> }
    ELSE { <<m>> \o c : m \in Messages, c \in ChainsOfLen(n - 1) }

Chains == UNION { ChainsOfLen(n) : n \in 1..MaxChain }

AnyhowResults(bt) ==
    { Ok(v) : v \in Values } \cup { Err(AnyhowError(c, bt)) : c \in Chains }

(* Result<U, PoisonError<U>>: the poisoning error wraps the guarded value. *)
PoisonError(v) == [tag |-> "PoisonError", guard |-> v]

LockResults == { Ok(v) : v \in Values } \cup { Err(PoisonError(v)) : v \in Values }

(* --------------------------- source locations ------------------------- *)
UserFile == "src/caller.rs"

LayerFile == "src/error.rs"

Location(file, line) == [file |-> file, line |-> line]

UserLines == 1..MaxLine

NonFatalToLogLine == 50

(* ----------------------------- rendering ------------------------------ *)
(* Debug of an integer payload: its decimal digits. *)
DebugValue(v) == <<ToString(v)>>

(* "{e:#?}" of a std::sync::PoisonError<U>: the opaque struct rendering,   *)
(* which does not show the guarded value (U need not implement Debug).     *)
DebugPoisonError(e) == <<"PoisonError", " ", "{", " ", "..", " ", "}">>

(* The indentation written before each cause: "    " for a single cause,  *)
(* "{: >5}: " when the causes are numbered.                                *)
Indented(multiple, n) ==
    IF multiple THEN <<"    ", ToString(n), ": ">> ELSE <<"    ">>

RECURSIVE CausedBy(_, _, _)
CausedBy(causes, multiple, n) ==
    IF causes = <<>> THEN <<>>
    ELSE <<NL>> \o Indented(multiple, n) \o Head(causes)
             \o CausedBy(Tail(causes), multiple, n + 1)

StackBacktrace == <<NL, NL, "Stack backtrace:", NL, "   0: <frames>">>

(* "{}" of an anyhow::Error: the outermost message only. *)
DisplayError(e) == e.chain[1]

(* "{:#}" of an anyhow::Error: the chain joined by ": " on one line. *)
RECURSIVE AlternateDisplayError(_)
AlternateDisplayError(e) ==
    IF Len(e.chain) = 1 THEN e.chain[1]
    ELSE e.chain[1] \o <<": ">>
           \o AlternateDisplayError([e EXCEPT !.chain = Tail(e.chain)])

(* "{:?}" of an anyhow::Error. *)
DebugError(e) ==
    DisplayError(e)
      \o (IF Len(e.chain) > 1
          THEN <<NL, NL, "Caused by:">>
                 \o CausedBy(Tail(e.chain), Len(e.chain) > 2, 0)
          ELSE <<>>)
      \o (IF e.backtrace THEN StackBacktrace ELSE <<>>)

(* ------------------------- outcomes of a call ------------------------- *)
(* A call either returns a value or panics with a message; events are the  *)
(* sink invocations it made, in order.                                     *)
Return(v, events) == [kind |-> "return", value |-> v, events |-> events]

Panic(message) == [kind |-> "panic", message |-> message, events |-> <<>>]

(* ------------------------------ ToAnyhow ------------------------------ *)
PoisonedLockPrefix ==
    <<"cannot", " ", "acquire", " ", "poisoned", " ", "lock", " ", "for", " ">>

(* Variant without the rendering of the error (a bare message). *)
ToAnyhowNoDetail(r, bt) ==
    IF IsOk(r) THEN Return(Ok(r.val), <<>>)
    ELSE Return(Err(AnyhowError(<<<<"cannot", " ", "acquire", " ", "poisoned", " ", "lock">>>>, bt)),
                <<>>)

ToAnyhow(r, bt) ==
    IF IsOk(r) THEN Return(Ok(r.val), <<>>)
    ELSE Return(Err(AnyhowError(<<PoisonedLockPrefix \o DebugPoisonError(r.err)>>, bt)),
                <<>>)

(* ------------------------------ sinks --------------------------------- *)
LogClosure(caller) == [sink |-> "log", caller |-> caller]

StderrClosure == [sink |-> "stderr"]

StdoutClosure == [sink |-> "stdout"]

UserClosure == [sink |-> "user"]

(* One invocation fun(msg) of a sink closure. *)
Invoke(fun, msg) ==
    CASE fun.sink = "log" ->
           [sink |-> "log", level |-> "Error", args |-> msg,
            file |-> fun.caller.file, line |-> fun.caller.line,
            module_path |-> "None"]
      [] fun.sink = "stderr" -> [sink |-> "stderr", text |-> msg \o <<NL>>]
      [] fun.sink = "stdout" -> [sink |-> "stdout", text |-> msg \o <<NL>>]
      [] OTHER -> [sink |-> "user", text |-> msg]

(* --------------------------- LoggableError ---------------------------- *)
(* Variant that renders with "{}" instead of "{:?}". *)
PrintErrorDisplay(r, fun) ==
    Return(r, IF IsErr(r) THEN <<Invoke(fun, DisplayError(r.err))>> ELSE <<>>)

(* Variant that hands back a failure rebuilt from the outermost message. *)
PrintErrorFlatten(r, fun) ==
    Return(IF IsErr(r) THEN Err([r.err EXCEPT !.chain = <<DisplayError(r.err)>>]) ELSE r,
           IF IsErr(r) THEN <<Invoke(fun, DebugError(r.err))>> ELSE <<>>)

PrintError(r, fun) ==
    Return(r, IF IsErr(r) THEN <<Invoke(fun, DebugError(r.err))>> ELSE <<>>)

ToLog(r, caller) == PrintError(r, LogClosure(caller))

(* Variant whose closure uses println! instead of eprintln!. *)
ToStderrPrintln(r) == PrintError(r, StdoutClosure)

ToStderr(r) == PrintError(r, StderrClosure)

ToStdout(r) == PrintError(r, StdoutClosure)

(* ----------------------------- FatalError ----------------------------- *)
NonFatalAnnotation == <<"a", " ", "non-fatal", " ", "error", " ", "occured">>

FatalAnnotation == <<"a", " ", "fatal", " ", "error", " ", "occured">>

ExpectMessage == <<"Program", " ", "terminates">>

(* Variant that adds the annotation at the inner end of the chain. *)
ContextAppend(r, c) ==
    IF IsErr(r) THEN Err([r.err EXCEPT !.chain = @ \o <<c>>]) ELSE r

(* anyhow::Context::context on a Result: wraps the error of a failure. *)
Context(r, c) ==
    IF IsErr(r) THEN Err([r.err EXCEPT !.chain = <<c>> \o @]) ELSE r

(* Variant that falls back to a default value (unwrap_or_default). *)
ExpectOrDefault(r, msg) ==
    IF IsOk(r) THEN Return(r.val, <<>>) ELSE Return(0, <<>>)

(* Result::expect: panics with "{msg}: {error:?}" on a failure. *)
Expect(r, msg) ==
    IF IsOk(r) THEN Return(r.val, <<>>)
    ELSE Panic(msg \o <<": ">> \o DebugError(r.err))

(* Variant without the attribute on non_fatal. *)
NonFatalNoTrackCaller == FALSE

(* #[track_caller] on the trait declaration of non_fatal. *)
NonFatalTrackCaller == TRUE

(* Location::caller() seen by a #[track_caller] callee that is called at   *)
(* `here` from a function whose own caller is `outer`.                     *)
CallerLocation(trackCaller, outer, here) == IF trackCaller THEN outer ELSE here

(* Variant that also echoes the failure to stderr. *)
NonFatalAlsoStderr(r, caller) ==
    IF IsErr(r)
    THEN Return(Unit,
                ToLog(Context(r, NonFatalAnnotation), caller).events
                  \o ToStderr(Context(r, NonFatalAnnotation)).events)
    ELSE Return(Unit, <<>>)

NonFatal(r, caller) ==
    IF IsErr(r)
    THEN Return(Unit,
                ToLog(Context(r, NonFatalAnnotation),
                      CallerLocation(NonFatalTrackCaller, caller,
                                     Location(LayerFile, NonFatalToLogLine))).events)
    ELSE Return(Unit, <<>>)

(* Variant that hands back a default value instead of the payload. *)
FatalDefault(r) ==
    IF IsOk(r) THEN Return(0, <<>>)
    ELSE Expect(Context(r, FatalAnnotation), ExpectMessage)

Fatal(r) ==
    IF IsOk(r) THEN Return(r.val, <<>>)
    ELSE Expect(Context(r, FatalAnnotation), ExpectMessage)

(* ------------------------------ the caller ---------------------------- *)
Transforms == {"print_error", "to_log", "to_stderr", "to_stdout"}

Dispositions == {"non_fatal", "fatal"}

Entry(op, line, arg, outcome) ==
    [op |-> op, line |-> line, arg |-> arg, outcome |-> outcome]

NumTransforms == Len(SelectSeq(hist, LAMBDA h : h.op \in Transforms))

Init ==
    /\ rustBacktrace \in BOOLEAN
    /\ out = <<>>
    /\ hist = <<>>
    /\ \/ /\ pc = "lock"
          /\ lockres \in LockResults
          /\ self = NoValue
          /\ input = NoValue
       \/ /\ pc = "chain"
          /\ lockres = NoValue
          /\ self \in AnyhowResults(rustBacktrace)
          /\ input = self

(* The effect on the caller of a call op(arg) at `line` with `outcome`.    *)
Step(op, line, arg, outcome) ==
    /\ hist' = Append(hist, Entry(op, line, arg, outcome))
    /\ out' = out \o outcome.events
    /\ IF outcome.kind = "panic"
       THEN pc' = "panicked" /\ self' = NoValue
       ELSE IF op \in Dispositions
       THEN pc' = "returned" /\ self' = NoValue
       ELSE pc' = "chain" /\ self' = outcome.value
    /\ UNCHANGED rustBacktrace

ToAnyhowCall ==
    /\ pc = "lock"
    /\ \E line \in UserLines :
         LET o == ToAnyhow(lockres, rustBacktrace) IN
           /\ Step("to_anyhow", line, lockres, o)
           /\ input' = o.value
    /\ lockres' = NoValue

PrintErrorCall ==
    /\ pc = "chain"
    /\ NumTransforms < MaxCalls
    /\ \E line \in UserLines :
         Step("print_error", line, self, PrintError(self, UserClosure))
    /\ UNCHANGED <<lockres, input>>

ToLogCall ==
    /\ pc = "chain"
    /\ NumTransforms < MaxCalls
    /\ \E line \in UserLines :
         Step("to_log", line, self, ToLog(self, Location(UserFile, line)))
    /\ UNCHANGED <<lockres, input>>

ToStderrCall ==
    /\ pc = "chain"
    /\ NumTransforms < MaxCalls
    /\ \E line \in UserLines : Step("to_stderr", line, self, ToStderr(self))
    /\ UNCHANGED <<lockres, input>>

ToStdoutCall ==
    /\ pc = "chain"
    /\ NumTransforms < MaxCalls
    /\ \E line \in UserLines : Step("to_stdout", line, self, ToStdout(self))
    /\ UNCHANGED <<lockres, input>>

NonFatalCall ==
    /\ pc = "chain"
    /\ \E line \in UserLines :
         Step("non_fatal", line, self, NonFatal(self, Location(UserFile, line)))
    /\ UNCHANGED <<lockres, input>>

FatalCall ==
    /\ pc = "chain"
    /\ \E line \in UserLines : Step("fatal", line, self, Fatal(self))
    /\ UNCHANGED <<lockres, input>>

Next ==
    \/ ToAnyhowCall
    \/ PrintErrorCall
    \/ ToLogCall
    \/ ToStderrCall
    \/ ToStdoutCall
    \/ NonFatalCall
    \/ FatalCall

Spec == Init /\ [][Next]_vars

TypeOK ==
    /\ pc \in {"lock", "chain", "returned", "panicked"}
    /\ rustBacktrace \in BOOLEAN
    /\ Len(hist) <= MaxCalls + 2

(* ------------------------- reading the history ------------------------ *)
Calls == DOMAIN hist

RECURSIVE EventsUpTo(_)
EventsUpTo(n) ==
    IF n = 0 THEN <<>> ELSE EventsUpTo(n - 1) \o hist[n].outcome.events

(* What call number i wrote to the sinks, read from the sinks themselves. *)
Emitted(i) == SubSeq(out, Len(EventsUpTo(i - 1)) + 1, Len(EventsUpTo(i)))

IsLast(i) == i = Len(hist)

FailedCall(i, op) == hist[i].op = op /\ IsErr(hist[i].arg)

SucceededCall(i, op) == hist[i].op = op /\ IsOk(hist[i].arg)

(* C1: fatal on a failure never returns: the call panics, the caller is    *)
(* terminated and makes no further call.                                   *)
C1_FatalNeverReturns ==
    \A i \in Calls :
        FailedCall(i, "fatal") =>
            /\ hist[i].outcome.kind = "panic"
            /\ IsLast(i)
            /\ pc = "panicked"
            /\ self = NoValue

C1_Witness ==
    /\ hist # <<>>
    /\ FailedCall(Len(hist), "fatal")
    /\ pc = "panicked"

(* C2: non_fatal on a failure returns normally and emits exactly one       *)
(* record, to the log sink, carrying the non-fatal annotation; nothing     *)
(* goes to stdout or stderr.                                               *)
C2_NonFatalLogsOnce ==
    \A i \in Calls :
        FailedCall(i, "non_fatal") =>
            /\ hist[i].outcome.kind = "return"
            /\ pc = "returned"
            /\ Len(Emitted(i)) = 1
            /\ Emitted(i)[1].sink = "log"
            /\ Contains(Emitted(i)[1].args, NonFatalAnnotation)
            /\ Len(out) = Len(EventsUpTo(i - 1)) + 1

C2_Witness ==
    /\ hist # <<>>
    /\ FailedCall(Len(hist), "non_fatal")
    /\ pc = "returned"
    /\ out # <<>>
    /\ out[Len(out)].sink = "log"

(* C3: on a success non_fatal returns, discarding the value, and fatal     *)
(* returns exactly the payload; neither emits anything.                    *)
C3_SuccessPassesSilently ==
    \A i \in Calls :
        /\ SucceededCall(i, "non_fatal") =>
              /\ hist[i].outcome = Return(Unit, <<>>)
              /\ pc = "returned"
              /\ Emitted(i) = <<>>
              /\ Len(out) = Len(EventsUpTo(i - 1))
        /\ SucceededCall(i, "fatal") =>
              /\ hist[i].outcome.kind = "return"
              /\ hist[i].outcome.value = hist[i].arg.val
              /\ pc = "returned"
              /\ Emitted(i) = <<>>
              /\ Len(out) = Len(EventsUpTo(i - 1))

C3_Witness ==
    /\ hist # <<>>
    /\ SucceededCall(Len(hist), "fatal")
    /\ hist[Len(hist)].arg.val = MaxVal
    /\ pc = "returned"

(* C4: print_error invokes the sink exactly once on a failure, with the    *)
(* debug rendering of the failure (every message of its context chain),    *)
(* never on a success, and returns the original result unchanged.          *)
C4_PrintErrorTaps ==
    \A i \in Calls :
        hist[i].op = "print_error" =>
            /\ hist[i].outcome.kind = "return"
            /\ hist[i].outcome.value = hist[i].arg
            /\ IsOk(hist[i].arg) => Emitted(i) = <<>>
            /\ IsErr(hist[i].arg) =>
                  /\ Len(Emitted(i)) = 1
                  /\ Emitted(i)[1].sink = "user"
                  /\ Emitted(i)[1].text = DebugError(hist[i].arg.err)
                  /\ Lines(Emitted(i)[1].text)[1] = hist[i].arg.err.chain[1]
                  /\ \A k \in DOMAIN hist[i].arg.err.chain :
                        Contains(Emitted(i)[1].text, hist[i].arg.err.chain[k])

C4_Witness ==
    \E i \in Calls :
        /\ FailedCall(i, "print_error")
        /\ Len(hist[i].arg.err.chain) > 1
        /\ Len(Emitted(i)) = 1

(* C5: to_stderr(to_stdout(r)) on a failure writes the same rendered       *)
(* message once to stdout and then once to stderr and returns r; on a      *)
(* success it writes nothing and returns r.                                *)
C5_StdoutThenStderr ==
    \A i \in Calls :
        (i + 1 \in Calls /\ hist[i].op = "to_stdout" /\ hist[i + 1].op = "to_stderr") =>
            LET r == hist[i].arg
                written == Emitted(i) \o Emitted(i + 1)
            IN  /\ hist[i + 1].outcome.kind = "return"
                /\ hist[i + 1].outcome.value = r
                /\ IsOk(r) => written = <<>>
                /\ IsErr(r) =>
                      /\ Len(written) = 2
                      /\ written[1].sink = "stdout"
                      /\ written[2].sink = "stderr"
                      /\ written[1].text = written[2].text
                      /\ written[1].text = DebugError(r.err) \o <<NL>>

C5_Witness ==
    /\ Len(hist) >= 2
    /\ hist[Len(hist) - 1].op = "to_stdout"
    /\ hist[Len(hist)].op = "to_stderr"
    /\ IsErr(hist[Len(hist) - 1].arg)
    /\ Len(out) = 2

(* C6 as stated: the message of the normalised failure ends with the debug *)
(* rendering of the guarded value wrapped by the poisoning error.          *)
C6_Original ==
    \A i \in Calls :
        FailedCall(i, "to_anyhow") =>
            /\ IsErr(hist[i].outcome.value)
            /\ hist[i].outcome.value.err.chain =
                  << PoisonedLockPrefix \o DebugValue(hist[i].arg.err.guard) >>

(* C6: to_anyhow on a poisoning failure yields a failure whose only        *)
(* message is "cannot acquire poisoned lock for PoisonError { .. }", the   *)
(* rendering of the poisoning error itself, whatever value it guards;      *)
(* to_anyhow on a success yields that success with the same value.         *)
C6_PoisonedLockMessage ==
    \A i \in Calls :
        hist[i].op = "to_anyhow" =>
            /\ hist[i].outcome.kind = "return"
            /\ Emitted(i) = <<>>
            /\ IsOk(hist[i].arg) => hist[i].outcome.value = Ok(hist[i].arg.val)
            /\ IsErr(hist[i].arg) =>
                  /\ IsErr(hist[i].outcome.value)
                  /\ hist[i].outcome.value.err.chain =
                        << <<"cannot", " ", "acquire", " ", "poisoned", " ", "lock",
                             " ", "for", " ", "PoisonError", " ", "{", " ", "..",
                             " ", "}">> >>
                  /\ ~ Contains(hist[i].outcome.value.err.chain[1],
                                DebugValue(hist[i].arg.err.guard))

C6_Witness ==
    /\ hist # <<>>
    /\ FailedCall(1, "to_anyhow")
    /\ hist[1].arg.err.guard = MaxVal
    /\ pc = "chain"
    /\ IsErr(self)

(* C7: every record in the log sink has level Error, no module path, the   *)
(* rendered failure as message, and the file and line of the user's call   *)
(* of to_log or of non_fatal that produced it.                             *)
LogRecords == SelectSeq(out, LAMBDA e : e.sink = "log")

LoggingCalls ==
    SelectSeq(hist, LAMBDA h : h.op \in {"to_log", "non_fatal"} /\ IsErr(h.arg))

C7_LogRecordShape ==
    /\ Len(LogRecords) = Len(LoggingCalls)
    /\ \A k \in DOMAIN LogRecords :
          /\ LogRecords[k].level = "Error"
          /\ LogRecords[k].module_path = "None"
          /\ LogRecords[k].file = UserFile
          /\ LogRecords[k].line = LoggingCalls[k].line
          /\ LoggingCalls[k].op = "to_log" =>
                LogRecords[k].args = DebugError(LoggingCalls[k].arg.err)
          /\ LoggingCalls[k].op = "non_fatal" =>
                LogRecords[k].args =
                    DebugError(Context(LoggingCalls[k].arg, NonFatalAnnotation).err)

C7_Witness ==
    /\ Len(LogRecords) = 2
    /\ LoggingCalls[1].op = "to_log"
    /\ LoggingCalls[2].op = "non_fatal"
    /\ LogRecords[1].line # LogRecords[2].line
    /\ LogRecords[2].line = LoggingCalls[2].line

(* C8: the logging transforms always return, hand back the result they     *)
(* were given, and leave the outcome of a later disposition what it is on  *)
(* the original result; only the emissions differ.                         *)
C8_TransformsPassThrough ==
    /\ pc = "chain" => self = input
    /\ \A i \in Calls :
          /\ hist[i].op \in Transforms =>
                /\ hist[i].outcome.kind = "return"
                /\ hist[i].outcome.value = hist[i].arg
                /\ hist[i].arg = input
          /\ hist[i].op = "fatal" => hist[i].outcome = Fatal(input)
          /\ hist[i].op = "non_fatal" =>
                hist[i].outcome = NonFatal(input, Location(UserFile, hist[i].line))
          /\ hist[i].op \in Dispositions =>
                out = EventsUpTo(i - 1) \o hist[i].outcome.events

C8_Witness ==
    /\ NumTransforms = MaxCalls
    /\ Len(hist) = MaxCalls + 1
    /\ FailedCall(Len(hist), "fatal")
    /\ Len(input.err.chain) > 1
    /\ Len(out) = MaxCalls

(* C9 as stated: the termination message contains "a fatal error occurred" *)
(* and the text of the original failure.                                   *)
C9_Original ==
    \A i \in Calls :
        FailedCall(i, "fatal") =>
            /\ hist[i].outcome.kind = "panic"
            /\ Contains(hist[i].outcome.message,
                        <<"a", " ", "fatal", " ", "error", " ", "occurred">>)
            /\ Contains(hist[i].outcome.message, DisplayError(hist[i].arg.err))

(* C9: the termination message of fatal on a failure is "Program           *)
(* terminates: a fatal error occured" (the annotation as spelled in the    *)
(* code) on the first line, then an empty line, "Caused by:", and one      *)
(* indented line per message of the original failure, most recent first.   *)
C9_TerminationMessage ==
    \A i \in Calls :
        FailedCall(i, "fatal") =>
            /\ hist[i].outcome.kind = "panic"
            /\ LET message == hist[i].outcome.message
                   ls == Lines(message)
                   chain == hist[i].arg.err.chain
               IN  /\ Contains(message, <<"a", " ", "fatal", " ", "error", " ", "occured">>)
                   /\ Len(ls) >= 3 + Len(chain)
                   /\ ls[1] = <<"Program", " ", "terminates", ": ",
                                "a", " ", "fatal", " ", "error", " ", "occured">>
                   /\ ls[2] = <<>>
                   /\ ls[3] = <<"Caused by:">>
                   /\ \A k \in DOMAIN chain :
                         /\ StartsWith(ls[3 + k], <<"    ">>)
                         /\ EndsWith(ls[3 + k], chain[k])

C9_Witness ==
    /\ hist # <<>>
    /\ FailedCall(Len(hist), "fatal")
    /\ Len(hist[Len(hist)].arg.err.chain) = 2
    /\ hist[Len(hist)].arg.err.chain[1] # hist[Len(hist)].arg.err.chain[2]
    /\ hist[Len(hist)].outcome.kind = "panic"

(* C10 as stated: the diagnostic of non_fatal on a failure with message m  *)
(* has a line ending in "a non-fatal error occured: m".                    *)
C10_Original ==
    \A i \in Calls :
        (FailedCall(i, "non_fatal") /\ Len(hist[i].arg.err.chain) = 1) =>
            /\ hist[i].outcome.kind = "return"
            /\ Len(Emitted(i)) = 1
            /\ \E l \in DOMAIN Lines(Emitted(i)[1].args) :
                  EndsWith(Lines(Emitted(i)[1].args)[l],
                           <<"a", " ", "non-fatal", " ", "error", " ", "occured", ": ">>
                             \o hist[i].arg.err.chain[1])

(* C10: non_fatal on a failure with message m returns and the diagnostic   *)
(* is the multi-line rendering: "a non-fatal error occured", an empty      *)
(* line, "Caused by:", and a line of four blanks and m.                    *)
C10_NonFatalDiagnostic ==
    \A i \in Calls :
        (FailedCall(i, "non_fatal") /\ Len(hist[i].arg.err.chain) = 1) =>
            /\ hist[i].outcome.kind = "return"
            /\ pc = "returned"
            /\ Len(Emitted(i)) = 1
            /\ LET ls == Lines(Emitted(i)[1].args)
               IN  /\ Len(ls) >= 4
                   /\ ls[1] = <<"a", " ", "non-fatal", " ", "error", " ", "occured">>
                   /\ ls[2] = <<>>
                   /\ ls[3] = <<"Caused by:">>
                   /\ ls[4] = <<"    ">> \o hist[i].arg.err.chain[1]

C10_Witness ==
    /\ hist # <<>>
    /\ FailedCall(Len(hist), "non_fatal")
    /\ hist[Len(hist)].arg.err.chain = << <<"disk", " ", "full">> >>
    /\ Len(Emitted(Len(hist))) = 1
    /\ pc = "returned"

====
